---- MODULE Spec2Model ----
(***************************************************************************)
(* Graph-traversal kernels of the Graph_Theory_using_manim scenes:         *)
(* breadth-first search (bfs.py), depth-first search (dfs.py), Dijkstra    *)
(* (dijkstra.py) and Hierholzer's walk (eulerian_path.py).  Each scene's   *)
(* loop body is one action; the animation calls between the assignments    *)
(* change no algorithm state and are left out.                             *)
(***************************************************************************)
EXTENDS Integers, Sequences, FiniteSets, TLC

VARIABLES
    scene,            \* which kernel runs: "bfs", "run_queue_bfs", "dfs_rec", "dfs_iter", ...
    pc,               \* "loop" while the kernel's loop runs, "done" after it, the
                      \* exception's name when the scene ended by one
    vertices,         \* the scene's vertex list
    edges,            \* the scene's edge list, a sequence of pairs
    edge_weights,     \* dijkstra.py: weight of each listed edge
    start,            \* source vertex
    visited,          \* set of visited (finalized) vertices
    traversal_order,  \* list of vertices in visiting order
    tree_edges,       \* list of recorded tree edges
    distances,        \* bfs.py / dijkstra.py: dict vertex -> distance (Inf when unset)
    dist_local,       \* run_queue_bfs: dict with a key only for discovered vertices
    queue,            \* bfs.py work queue of <<node, parent>>
    queue_items,      \* bfs.py displayed queue
    in_queue,         \* bfs.py set of queued vertices
    options,          \* run_queue_bfs: the flags of the call, recorded when the code
                      \* reads them after the loop (<<>> before)
    parity_color,     \* run_queue_bfs: the parity fill each vertex has at return (by the
                      \* colouring step, then by the layer step); no key for a vertex
                      \* neither step filled
    bad_edges,        \* run_queue_bfs: edges listed as joining same-parity vertices
    layers,           \* run_queue_bfs: dict level -> list of vertices
    frames,           \* dfs.py recursive variant: the call stack of dfs_animation
    stack,            \* dfs.py iterative variant: list of <<node, parent>>
    stack_items,      \* dfs.py / hamiltonian_path.py displayed stack (vertex of each box)
    in_stack,         \* dfs.py iterative variant: set of stacked vertices
    neighbors_to_push,\* dfs.py iterative variant: the batch pushed by the last visit
    pq,               \* dijkstra.py heap of <<distance, node>>
    pq_items,         \* dijkstra.py displayed priority queue, sorted <<distance, node>>
    in_pq,            \* dijkstra.py set of vertices shown in the priority queue
    parent,           \* dijkstra.py dict vertex -> parent on its shortest path
    current_vertex,   \* eulerian_path.py vertex the walk stands on
    stack_vertices,   \* eulerian_path.py stack of vertices
    stack_visual_items, \* eulerian_path.py displayed stack
    circuit,          \* eulerian_path.py circuit, built in reverse
    remaining_edges,  \* eulerian_path.py set of unused edges
    final_circuit,    \* eulerian_path.py reversed circuit
    path,             \* hamiltonian_path.py current path, a list of vertices
    visited_set,      \* hamiltonian_path.py set of the vertices on the path
    current_path_edges, \* hamiltonian_path.py edge keys of the path, in order
    visited_items,    \* hamiltonian_path.py displayed visited list
    status,           \* hamiltonian_path.py short message shown in the status line
    saved,            \* record of <<path, visited_set, current_path_edges, stack_items>>
                      \* as they were before each extension still on the path
    random_edges,     \* main.py GraphSequence: cycle_edges + extra_edges
    new_edges,        \* main.py GraphSequence: the pairs added to reach the complete graph
    graph_edges,      \* main.py GraphSequence: the keys of graph.edges, in insertion order
    stats,            \* main.py GraphSequence: the displayed |E|
    trace             \* chronological record of frontier events <<kind, vertex>>; for
                      \* hamiltonian_path.py, of the extend, dead end, backtrack and
                      \* close steps

graphVars == <<scene, vertices, edges, edge_weights, start>>

postVars == <<options, parity_color, bad_edges, layers>>

bfsVars == <<dist_local, queue, queue_items, in_queue, postVars>>

dfsVars == <<frames, stack, stack_items, in_stack, neighbors_to_push>>

dijVars == <<pq, pq_items, in_pq, parent>>

eulerVars == <<current_vertex, stack_vertices, stack_visual_items, circuit,
               remaining_edges, final_circuit>>

hamVars == <<path, visited_set, current_path_edges, visited_items, status, saved>>

seqVars == <<random_edges, new_edges, graph_edges, stats>>

vars == <<graphVars, pc, visited, traversal_order, tree_edges, distances, trace,
          bfsVars, dfsVars, dijVars, eulerVars, hamVars, seqVars>>

\* the state of the kernels that are not running
PostIdle == options = <<>> /\ parity_color = <<>> /\ bad_edges = <<>> /\ layers = <<>>

BfsIdle ==
    /\ dist_local = <<>>
    /\ queue = <<>>
    /\ queue_items = <<>>
    /\ in_queue = {}
    /\ PostIdle

DfsIdle ==
    /\ frames = <<>>
    /\ stack = <<>>
    /\ stack_items = <<>>
    /\ in_stack = {}
    /\ neighbors_to_push = <<>>

DijIdle == pq = <<>> /\ pq_items = <<>> /\ in_pq = {} /\ parent = <<>>

EulerIdle ==
    /\ current_vertex = 0
    /\ stack_vertices = <<>>
    /\ stack_visual_items = <<>>
    /\ circuit = <<>>
    /\ remaining_edges = {}
    /\ final_circuit = <<>>

SeqIdle == random_edges = <<>> /\ new_edges = <<>> /\ graph_edges = <<>> /\ stats = 0

HamIdle ==
    /\ path = <<>>
    /\ visited_set = {}
    /\ current_path_edges = <<>>
    /\ visited_items = <<>>
    /\ status = ""
    /\ saved = <<>>

---------------------------------------------------------------------------
(* Bounds of the explored inputs *)

\* generated graphs have the vertices 0 .. NumV-1
NumV == 4

\* Python's None (no parent)
None == -1

\* float("inf")
Inf == 999

---------------------------------------------------------------------------
(* Sequences and lists *)

Range(s) == {s[i] : i \in 1..Len(s)}

Min(a, b) == IF a < b THEN a ELSE b

Max(a, b) == IF a < b THEN b ELSE a

\* the position s[i] takes when s is sorted ascending (equal items keep their order)
SortedPosition(s, i) ==
    Cardinality({j \in 1..Len(s) : s[j] < s[i] \/ (s[j] = s[i] /\ j <= i)})

\* list.sort() on a list of integers
SortList(s) == [k \in 1..Len(s) |-> s[CHOOSE i \in 1..Len(s) : SortedPosition(s, i) = k]]

\* as Reversed, leaving the list in its order
Unreversed(s) == s

\* reversed(s)
Reversed(s) == [i \in 1..Len(s) |-> s[Len(s) + 1 - i]]

\* lexicographic order on pairs, the order of Python tuples
PairLess(p, q) == p[1] < q[1] \/ (p[1] = q[1] /\ p[2] < q[2])

\* number of positions of s holding x
Count(s, x) == Cardinality({i \in 1..Len(s) : s[i] = x})

---------------------------------------------------------------------------
(* Input graphs *)

\* the 7-vertex graph every scene uses
SceneVertices == <<0, 1, 2, 3, 4, 5, 6>>

SceneEdges == << <<0, 1>>, <<0, 2>>, <<1, 3>>, <<1, 4>>, <<2, 5>>, <<3, 6>>, <<4, 6>> >>

GenVertices == [i \in 1..NumV |-> i - 1]

AllPairs == {p \in (0..NumV-1) \X (0..NumV-1) : p[1] < p[2]}

\* a set of pairs as an edge list in ascending order
PairList(S) ==
    [k \in 1..Cardinality(S) |->
        CHOOSE p \in S : Cardinality({q \in S : PairLess(q, p)}) = k - 1]

\* every simple undirected graph on 0..NumV-1, and the scene's own graph
InputGraphs ==
    {[v |-> GenVertices, e |-> PairList(S)] : S \in SUBSET AllPairs}
        \cup {[v |-> SceneVertices, e |-> SceneEdges]}

---------------------------------------------------------------------------
(* Adjacency lists *)

\* as AdjAppend, with the reverse direction adj[v].append(u) left out
RECURSIVE AdjAppendOneWay(_, _)
AdjAppendOneWay(es, x) ==
    IF es = <<>> THEN <<>>
    ELSE (IF Head(es)[1] = x THEN <<Head(es)[2]>> ELSE <<>>) \o AdjAppendOneWay(Tail(es), x)

\* adj[x] before sorting: for u, v in edges: adj[u].append(v); adj[v].append(u)
RECURSIVE AdjAppend(_, _)
AdjAppend(es, x) ==
    IF es = <<>> THEN <<>>
    ELSE LET u == Head(es)[1]
             v == Head(es)[2]
         IN  (IF u = x THEN <<v>> ELSE <<>>) \o (IF v = x THEN <<u>> ELSE <<>>)
                 \o AdjAppend(Tail(es), x)

\* adj[x] after adj[x].sort() (the appended list is bound, so that the sort reads a
\* computed list)
adj(x) == CHOOSE r \in {SortList(s) : s \in {AdjAppend(edges, x)}} : TRUE

---------------------------------------------------------------------------
(* Breadth-first search: BFSQueueVisualization.construct and run_queue_bfs *)

\* as enqueue, with in_queue.add(node) left out
enqueueUnmarked(st, node) ==
    IF node \in st.visited \/ node \in st.in_queue THEN st
    ELSE [st EXCEPT !.queue_items = Append(@, node)]

\* enqueue(node): the displayed queue and in_queue
enqueue(st, node) ==
    IF node \in st.visited \/ node \in st.in_queue THEN st
    ELSE [st EXCEPT !.queue_items = Append(@, node),
                    !.in_queue = @ \cup {node}]

\* as QueuePop, taking the last entry: queue.pop()
QueuePopLast(q) == [item |-> q[Len(q)], rest |-> SubSeq(q, 1, Len(q) - 1)]

\* queue.pop(0): the front entry and the rest of the work queue
QueuePop(q) == [item |-> Head(q), rest |-> Tail(q)]

\* as dequeue, leaving the displayed queue as it is
dequeueKept(items) == items

\* dequeue(): drop the front of the displayed queue
dequeue(items) == IF items = <<>> THEN items ELSE Tail(items)

\* one iteration of `for nbr in adj[node]` in the main scene
BfsNeighbour(st, node, nbr) ==
    IF nbr \notin st.visited /\ nbr \notin st.in_queue
    THEN enqueue([st EXCEPT
                    !.queue = Append(@, <<nbr, node>>),
                    !.tree_edges = Append(@, <<Min(node, nbr), Max(node, nbr)>>),
                    !.distances = IF st.distances[nbr] = Inf
                                  THEN [st.distances EXCEPT ![nbr] = st.distances[node] + 1]
                                  ELSE st.distances,
                    !.trace = Append(@, <<"append", nbr>>)],
                 nbr)
    ELSE st

\* the neighbour loop of the main scene; each iteration's state is bound through a
\* singleton set, so that it is computed once
RECURSIVE BfsNeighbours(_, _, _)
BfsNeighbours(st, node, nbrs) ==
    IF nbrs = <<>> THEN st
    ELSE CHOOSE r \in {BfsNeighbours(s, node, Tail(nbrs)) :
                          s \in {BfsNeighbour(st, node, Head(nbrs))}} : TRUE

\* dist_local.get(v, 0)
DistGet(d, v) == IF v \in DOMAIN d THEN d[v] ELSE 0

\* dist_local[v] = x
DictSet(d, v, x) == [k \in DOMAIN d \cup {v} |-> IF k = v THEN x ELSE d[k]]

\* one iteration of `for nbr in adj_local[node]` in run_queue_bfs
RunQueueNeighbour(st, node, nbr) ==
    IF nbr \notin st.visited /\ nbr \notin st.in_queue
    THEN enqueue([st EXCEPT
                    !.queue = Append(@, <<nbr, node>>),
                    !.dist_local = DictSet(st.dist_local, nbr,
                                           DistGet(st.dist_local, node) + 1),
                    !.trace = Append(@, <<"append", nbr>>)],
                 nbr)
    ELSE st

\* the neighbour loop of run_queue_bfs
RECURSIVE RunQueueNeighbours(_, _, _)
RunQueueNeighbours(st, node, nbrs) ==
    IF nbrs = <<>> THEN st
    ELSE CHOOSE r \in {RunQueueNeighbours(s, node, Tail(nbrs)) :
                          s \in {RunQueueNeighbour(st, node, Head(nbrs))}} : TRUE

BfsState ==
    [queue |-> queue, queue_items |-> queue_items, in_queue |-> in_queue,
     visited |-> visited, tree_edges |-> tree_edges, distances |-> distances,
     dist_local |-> dist_local, trace |-> trace]

\* state before the while loop: enqueue(start); distances[start] = 0; queue = [(start, None)]
InitBFS ==
    \E g \in InputGraphs :
        /\ vertices = g.v
        /\ edges = g.e
        /\ edge_weights = <<>>
        /\ \/ scene = "bfs" /\ start = 0
           \/ scene = "run_queue_bfs" /\ start \in Range(g.v)
        /\ pc = "loop"
        /\ visited = {}
        /\ traversal_order = <<>>
        /\ tree_edges = <<>>
        /\ distances = IF scene = "bfs"
                       THEN [v \in Range(g.v) |-> IF v = start THEN 0 ELSE Inf]
                       ELSE <<>>
        /\ dist_local = IF scene = "bfs" THEN <<>> ELSE (start :> 0)
        /\ queue = << <<start, None>> >>
        /\ queue_items = <<start>>
        /\ in_queue = {start}
        /\ trace = << <<"append", start>> >>
        /\ PostIdle
        /\ DfsIdle
        /\ DijIdle
        /\ EulerIdle
        /\ HamIdle
        /\ SeqIdle

\* one iteration of `while queue:` (either scene)
BFSStep ==
    /\ scene \in {"bfs", "run_queue_bfs"}
    /\ pc = "loop"
    /\ queue # <<>>
    /\ \E node \in {QueuePop(queue).item[1]} :
       \E popped \in {[BfsState EXCEPT
                          !.queue = QueuePop(queue).rest,
                          !.queue_items = dequeue(@),
                          !.in_queue = @ \ {node},
                          !.trace = Append(@, <<"pop", node>>)]} :
       \E seen \in {[popped EXCEPT !.visited = @ \cup {node}]} :
       \E nbrs \in {adj(node)} :
       \E st \in {IF node \in visited
                   THEN [popped EXCEPT !.trace = Append(@, <<"skip", node>>)]
                   ELSE IF scene = "bfs"
                        THEN BfsNeighbours(seen, node, nbrs)
                        ELSE RunQueueNeighbours(seen, node, nbrs)} :
           /\ queue' = st.queue
           /\ queue_items' = st.queue_items
           /\ in_queue' = st.in_queue
           /\ visited' = st.visited
           /\ tree_edges' = st.tree_edges
           /\ distances' = st.distances
           /\ dist_local' = st.dist_local
           /\ trace' = st.trace
           /\ traversal_order' = IF node \in visited THEN traversal_order
                                 ELSE Append(traversal_order, node)
    /\ UNCHANGED <<graphVars, hamVars, seqVars, pc, postVars, dfsVars, dijVars, eulerVars>>

\* the flag combinations of a run_queue_bfs call
Options == [show_bipartite_coloring : BOOLEAN, explain_non_bipartite : BOOLEAN,
            show_layers : BOOLEAN]

IsAppend(ev) == ev[1] = "append"

\* the keys of dist_local in insertion order: the vertices in the order they were queued
DistKeys == [i \in 1..Len(SelectSeq(trace, IsAppend)) |-> SelectSeq(trace, IsAppend)[i][2]]

\* COLOR_EVEN if dist_local.get(v, 0) % 2 == 0 else COLOR_ODD
ParityColor(d, v) == IF DistGet(d, v) % 2 = 0 THEN "COLOR_EVEN" ELSE "COLOR_ODD"

\* as SameParity, with the comparison turned round
DifferentParity(e) == DistGet(dist_local, e[1]) % 2 # DistGet(dist_local, e[2]) % 2

\* the test of the bad_edges loop
SameParity(e) == DistGet(dist_local, e[1]) % 2 = DistGet(dist_local, e[2]) % 2

\* for u, v in edges_local: if same parity: bad_edges.append((u, v))
BadEdges == SelectSeq(edges, SameParity)

\* for v, d in dist_local.items(): layers.setdefault(int(d), []).append(v)
Layers ==
    [d \in {dist_local[v] : v \in DOMAIN dist_local} |->
        LET AtLevel(v) == dist_local[v] = d IN SelectSeq(DistKeys, AtLevel)]

\* COLOR_EVEN if level % 2 == 0 else COLOR_ODD
LevelColor(level) == IF level % 2 = 0 THEN "COLOR_EVEN" ELSE "COLOR_ODD"

\* color_targets of the layer step: every vertex of every layer with the fill of its
\* level, as a dict vertex -> fill
ColorTargets == [v \in DOMAIN dist_local |-> LevelColor(dist_local[v])]

\* the fills after set_fill was played for each of `targets` on top of `fills`
SetFill(fills, targets) ==
    [v \in DOMAIN fills \cup DOMAIN targets |->
        IF v \in DOMAIN targets THEN targets[v] ELSE fills[v]]

\* new_layout = {v: pos for v, pos in label_targets.items()}: the vertices with a
\* position on the grid, which are the vertices of the layers
new_layout == DOMAIN dist_local

\* Graph(vertices_local, edges_local, layout=new_layout) places every vertex of
\* vertices_local at new_layout[v]: it can be built when each of them has a position,
\* and raises KeyError otherwise
Placeable == \A v \in Range(vertices) : v \in new_layout

\* the loop condition fails: `while queue:` exits; run_queue_bfs then colours by
\* parity, lists the bad edges, and groups the layers and fills them by level, as its
\* flags ask.  The layer step builds the graph anew on the grid before it plays the
\* fills: with a vertex the start does not reach the call ends there with KeyError.
BFSExit ==
    /\ scene \in {"bfs", "run_queue_bfs"}
    /\ pc = "loop"
    /\ queue = <<>>
    /\ IF scene = "bfs"
       THEN /\ pc' = "done"
            /\ UNCHANGED postVars
       ELSE \E opt \in Options :
               /\ options' = opt
               /\ pc' = IF opt.show_layers /\ ~Placeable THEN "KeyError" ELSE "done"
               /\ \E coloured \in {IF opt.show_bipartite_coloring
                                     THEN [v \in Range(vertices) |->
                                              ParityColor(dist_local, v)]
                                     ELSE <<>>} :
                     parity_color' = IF opt.show_layers /\ Placeable
                                     THEN SetFill(coloured, ColorTargets)
                                     ELSE coloured
               /\ bad_edges' = IF opt.explain_non_bipartite THEN BadEdges ELSE <<>>
               /\ layers' = IF opt.show_layers THEN Layers ELSE <<>>
    /\ UNCHANGED <<graphVars, hamVars, seqVars,
                   visited, traversal_order, tree_edges, distances, trace,
                   dist_local, queue, queue_items, in_queue, dfsVars, dijVars, eulerVars>>

NextBFS == BFSStep \/ BFSExit

SpecBFS == InitBFS /\ [][NextBFS]_vars

---------------------------------------------------------------------------
(* Depth-first search, recursive variant: dfs_animation *)

Last(s) == s[Len(s)]

Front(s) == SubSeq(s, 1, Len(s) - 1)

\* the unvisited neighbours of node, in edge-list order
RECURSIVE RecNeighbours(_, _, _)
RecNeighbours(es, node, vis) ==
    IF es = <<>> THEN <<>>
    ELSE LET edge == Head(es)
         IN  (IF edge[1] = node /\ edge[2] \notin vis THEN <<edge[2]>>
              ELSE IF edge[2] = node /\ edge[1] \notin vis THEN <<edge[1]>>
              ELSE <<>>) \o RecNeighbours(Tail(es), node, vis)

NotThreeOrFour(n) == n \notin {3, 4}

\* neighbors.sort(), except at node 1 where 4 is put before 3
OrderNeighbours(node, nbrs) ==
    IF node = 1 /\ 3 \in Range(nbrs) /\ 4 \in Range(nbrs)
    THEN <<4, 3>> \o SelectSeq(nbrs, NotThreeOrFour)
    ELSE SortList(nbrs)

\* the body of dfs_animation(node, parent=caller) up to its neighbour loop, called
\* with the caller's frames fr and tree edges te
DfsEnter(node, caller, fr, te) ==
    /\ tree_edges' = te
    /\ IF node \in visited
       THEN /\ frames' = fr
            /\ UNCHANGED <<visited, traversal_order, stack_items, trace>>
       ELSE /\ visited' = visited \cup {node}
            /\ traversal_order' = Append(traversal_order, node)
            /\ stack_items' = Append(stack_items, node)
            /\ trace' = Append(trace, <<"call", node>>)
            /\ \E neighbors \in {RecNeighbours(edges, node, visited \cup {node})} :
                  frames' = Append(fr, [node |-> node, parent |-> caller, i |-> 1,
                                        neighbors |-> OrderNeighbours(node, neighbors)])

\* dfs_animation(0)
DfsRecStart ==
    /\ scene = "dfs_rec"
    /\ pc = "start"
    /\ pc' = "loop"
    /\ DfsEnter(start, None, frames, tree_edges)
    /\ UNCHANGED <<graphVars, hamVars, seqVars, distances, bfsVars, dijVars, eulerVars,
                   stack, in_stack, neighbors_to_push>>

\* the top frame with its loop index advanced
Advanced == [frames EXCEPT ![Len(frames)].i = @ + 1]

\* `for neighbor in neighbors:` with the neighbour still unvisited: record the tree
\* edge and call dfs_animation(neighbor, node)
DfsRecDescend ==
    /\ scene = "dfs_rec"
    /\ pc = "loop"
    /\ frames # <<>>
    /\ LET f == Last(frames)
       IN  /\ f.i <= Len(f.neighbors)
           /\ f.neighbors[f.i] \notin visited
           /\ DfsEnter(f.neighbors[f.i], f.node, Advanced,
                       Append(tree_edges, <<f.node, f.neighbors[f.i]>>))
    /\ UNCHANGED <<graphVars, hamVars, seqVars, pc, distances, bfsVars, dijVars, eulerVars,
                   stack, in_stack, neighbors_to_push>>

\* `for neighbor in neighbors:` with the neighbour visited by a deeper call meanwhile
DfsRecSkip ==
    /\ scene = "dfs_rec"
    /\ pc = "loop"
    /\ frames # <<>>
    /\ LET f == Last(frames)
       IN  /\ f.i <= Len(f.neighbors)
           /\ f.neighbors[f.i] \in visited
    /\ frames' = Advanced
    /\ UNCHANGED <<graphVars, hamVars, seqVars,
                   pc, visited, traversal_order, tree_edges, distances, trace,
                   bfsVars, dijVars, eulerVars,
                   stack, stack_items, in_stack, neighbors_to_push>>

\* the neighbour loop is over: pop the displayed stack and return to the caller
DfsRecReturn ==
    /\ scene = "dfs_rec"
    /\ pc = "loop"
    /\ frames # <<>>
    /\ LET f == Last(frames)
       IN  /\ f.i > Len(f.neighbors)
           /\ trace' = Append(trace, <<"return", f.node>>)
    /\ frames' = Front(frames)
    /\ stack_items' = IF Len(stack_items) > 0 THEN Front(stack_items) ELSE stack_items
    /\ pc' = IF Len(frames) = 1 THEN "done" ELSE "loop"
    /\ UNCHANGED <<graphVars, hamVars, seqVars, visited, traversal_order, tree_edges, distances,
                   bfsVars, dijVars, eulerVars, stack, in_stack, neighbors_to_push>>

---------------------------------------------------------------------------
(* Depth-first search, iterative variant: the `while stack:` loop *)

\* `if node_id in visited or node_id in in_stack: return`: push_stack skips the node
\* and returns None
Skipped(st, node_id, vis) == node_id \in vis \/ node_id \in st.in_stack

\* push_stack(text, node_id) on <<stack_items, in_stack>>; vis is `visited`
push_stack(st, node_id, vis) ==
    IF Skipped(st, node_id, vis) THEN st
    ELSE [stack_items |-> Append(st.stack_items, node_id),
          in_stack |-> st.in_stack \cup {node_id}]

\* pop_stack(node_id) on <<stack_items, in_stack>>
pop_stack(st, node_id) ==
    IF Len(st.stack_items) = 0 THEN st
    ELSE [stack_items |-> Front(st.stack_items),
          in_stack |-> st.in_stack \ {node_id}]

\* as ShouldPush, without the in_stack test
ShouldPushUnvisited(nbr, vis, stacked) == nbr \notin vis

\* whether the neighbour is pushed: `nbr not in visited and nbr not in in_stack`
ShouldPush(nbr, vis, stacked) == nbr \notin vis /\ nbr \notin stacked

\* the neighbours appended by `for nbr in reversed(adj[node])`, in that order
RECURSIVE PushBatch(_, _, _)
PushBatch(nbrs, vis, stacked) ==
    IF nbrs = <<>> THEN <<>>
    ELSE (IF ShouldPush(Head(nbrs), vis, stacked) THEN <<Head(nbrs)>> ELSE <<>>)
             \o PushBatch(Tail(nbrs), vis, stacked)

\* `for nbr in neighbors_to_push: _, color_anim = push_stack(...)`: the loop ends
\* with the TypeError of the first push_stack that skips its node, the nodes after it
\* never pushed
RECURSIVE PushAll(_, _, _)
PushAll(st, batch, vis) ==
    IF batch = <<>> THEN st
    ELSE IF Skipped(st, Head(batch), vis) THEN st
    ELSE CHOOSE r \in {PushAll(s, Tail(batch), vis) :
                          s \in {push_stack(st, Head(batch), vis)}} : TRUE

\* push_stack returns None when it skips its node, which the tuple assignment
\* `_, color_anim = push_stack(...)` cannot unpack: a node listed twice in the batch
Unpackable(batch) == \A i, j \in 1..Len(batch) : batch[i] = batch[j] => i = j

ParentPairs(batch, node) == [i \in 1..Len(batch) |-> <<batch[i], node>>]

TreePairs(batch, node) ==
    [i \in 1..Len(batch) |-> <<Min(node, batch[i]), Max(node, batch[i])>>]

PushEvents(batch) == [i \in 1..Len(batch) |-> <<"append", batch[i]>>]

\* state before the loop: stack = [(0, None)]; in_stack.add(0); push_stack("DFS(0)", 0).
\* The recursive part has no in_stack and starts with an empty displayed stack, which
\* dfs_animation(0) pushes DFS(0) on
InitDFS ==
    \E g \in InputGraphs :
        /\ vertices = g.v
        /\ edges = g.e
        /\ edge_weights = <<>>
        /\ scene \in {"dfs_rec", "dfs_iter"}
        /\ start = 0
        /\ pc = IF scene = "dfs_rec" THEN "start" ELSE "loop"
        /\ visited = {}
        /\ traversal_order = <<>>
        /\ tree_edges = <<>>
        /\ distances = <<>>
        /\ BfsIdle
        /\ DijIdle
        /\ EulerIdle
        /\ HamIdle
        /\ SeqIdle
        /\ frames = <<>>
        /\ stack = IF scene = "dfs_iter" THEN << <<start, None>> >> ELSE <<>>
        /\ IF scene = "dfs_iter"
           THEN LET shown == push_stack([stack_items |-> <<>>, in_stack |-> {start}],
                                        start, {})
                IN  /\ stack_items = shown.stack_items
                    /\ in_stack = shown.in_stack
           ELSE /\ stack_items = <<>>
                /\ in_stack = {}
        /\ neighbors_to_push = <<>>
        /\ trace = IF scene = "dfs_iter" THEN << <<"append", start>> >> ELSE <<>>

\* one iteration of `while stack:`
DfsIterStep ==
    /\ scene = "dfs_iter"
    /\ pc = "loop"
    /\ stack # <<>>
    /\ \E node \in {Last(stack)[1]} :
       \E popped \in {pop_stack([stack_items |-> stack_items, in_stack |-> in_stack], node)} :
       \E vis \in {visited \cup {node}} :
       \E stacked \in {popped.in_stack \ {node}} :
       \E nbrs \in {Reversed(adj(node))} :
       \E batch \in {PushBatch(nbrs, vis, stacked)} :
       \E pushed \in {PushAll([stack_items |-> popped.stack_items, in_stack |-> stacked],
                              batch, vis)} :
           IF node \in visited
           THEN /\ stack' = Front(stack)
                /\ stack_items' = popped.stack_items
                /\ in_stack' = popped.in_stack
                /\ trace' = trace \o << <<"pop", node>>, <<"skip", node>> >>
                /\ UNCHANGED <<pc, visited, traversal_order, tree_edges, neighbors_to_push>>
           ELSE /\ visited' = vis
                /\ traversal_order' = Append(traversal_order, node)
                /\ stack' = Front(stack) \o ParentPairs(batch, node)
                /\ tree_edges' = tree_edges \o TreePairs(batch, node)
                /\ neighbors_to_push' = batch
                /\ stack_items' = pushed.stack_items
                /\ in_stack' = pushed.in_stack
                /\ trace' = Append(trace, <<"pop", node>>) \o PushEvents(batch)
                /\ pc' = IF Unpackable(batch) THEN "loop" ELSE "TypeError"
    /\ UNCHANGED <<graphVars, hamVars, seqVars, distances, bfsVars, dijVars, eulerVars, frames>>

\* `while stack:` exits
DfsIterExit ==
    /\ scene = "dfs_iter"
    /\ pc = "loop"
    /\ stack = <<>>
    /\ pc' = "done"
    /\ UNCHANGED <<graphVars, hamVars, seqVars,
                   visited, traversal_order, tree_edges, distances, trace,
                   bfsVars, dfsVars, dijVars, eulerVars>>

NextDFS == DfsRecStart \/ DfsRecDescend \/ DfsRecSkip \/ DfsRecReturn
               \/ DfsIterStep \/ DfsIterExit

SpecDFS == InitDFS /\ [][NextDFS]_vars

---------------------------------------------------------------------------
(* Dijkstra: DijkstraVisualization.run_dijkstra_example *)

\* generated weighted graphs have the vertices 0 .. NumW-1 and weights 0 .. MaxWeight
NumW == 3

MaxWeight == 2

\* Example 1 of the scene
Example1Vertices == <<0, 1, 2, 3>>

Example1Edges == << <<0, 1>>, <<0, 2>>, <<1, 3>>, <<2, 3>> >>

Example1Weights == (<<0, 1>> :> 6) @@ (<<0, 2>> :> 5) @@ (<<1, 3>> :> 5) @@ (<<2, 3>> :> 5)

\* Example 2 of the scene: the 7-vertex graph
Example2Weights ==
    (<<0, 1>> :> 4) @@ (<<0, 2>> :> 2) @@ (<<1, 3>> :> 5) @@ (<<1, 4>> :> 3)
        @@ (<<2, 5>> :> 6) @@ (<<3, 6>> :> 4) @@ (<<4, 6>> :> 2)

WeightedPairs == {p \in (0..NumW-1) \X (0..NumW-1) : p[1] < p[2]}

\* the graph in which pair p is an edge of weight w[p] unless w[p] = None
WeightedGraph(w) ==
    [v |-> [i \in 1..NumW |-> i - 1],
     e |-> PairList({p \in WeightedPairs : w[p] # None}),
     w |-> [p \in {q \in WeightedPairs : w[q] # None} |-> w[p]]]

\* every simple graph on 0..NumW-1 with weights 0..MaxWeight, and the scene's two examples
WeightedInputs ==
    {WeightedGraph(w) : w \in [WeightedPairs -> {None} \cup (0..MaxWeight)]}
        \cup {[v |-> Example1Vertices, e |-> Example1Edges, w |-> Example1Weights],
              [v |-> SceneVertices, e |-> SceneEdges, w |-> Example2Weights]}

\* adj[x]: for (u, v) in edges: adj[u].append((v, weight)); adj[v].append((u, weight))
RECURSIVE AdjWeighted(_, _)
AdjWeighted(es, x) ==
    IF es = <<>> THEN <<>>
    ELSE LET u == Head(es)[1]
             v == Head(es)[2]
             weight == edge_weights[Head(es)]
         IN  (IF u = x THEN << <<v, weight>> >> ELSE <<>>)
                 \o (IF v = x THEN << <<u, weight>> >> ELSE <<>>)
                 \o AdjWeighted(Tail(es), x)

\* s without its i-th item
RemoveAt(s, i) == SubSeq(s, 1, i - 1) \o SubSeq(s, i + 1, Len(s))

\* as HeapPop, taking the entry pushed last instead of the smallest
HeapPopLast(h) == [item |-> h[Len(h)], rest |-> SubSeq(h, 1, Len(h) - 1)]

\* heapq.heappop(pq): the smallest <<distance, node>> and the remaining heap
HeapPop(h) ==
    LET i == CHOOSE k \in 1..Len(h) : \A j \in 1..Len(h) : h[j] = h[k] \/ PairLess(h[k], h[j])
    IN  [item |-> h[i], rest |-> RemoveAt(h, i)]

\* the position s[i] takes when the pairs of s are sorted by (distance, node)
PairPosition(s, i) ==
    Cardinality({j \in 1..Len(s) : PairLess(s[j], s[i]) \/ (s[j] = s[i] /\ j <= i)})

\* pq_items.sort(key=lambda x: (x[1][0], x[1][1]))
SortPairs(s) == [k \in 1..Len(s) |-> s[CHOOSE i \in 1..Len(s) : PairPosition(s, i) = k]]

\* pq_items without its first entry for node (the loop that pops and breaks)
WithoutNode(items, node) ==
    IF \E i \in 1..Len(items) : items[i][2] = node
    THEN RemoveAt(items, CHOOSE i \in 1..Len(items) :
                            /\ items[i][2] = node
                            /\ \A j \in 1..(i - 1) : items[j][2] # node)
    ELSE items

\* enqueue_pq(dist, node) on the displayed queue
enqueue_pq(st, dist, node) ==
    IF node \in st.visited THEN st
    ELSE CHOOSE r \in {[st EXCEPT !.pq_items = SortPairs(Append(kept, <<dist, node>>)),
                                  !.in_pq = @ \cup {node}] :
                          kept \in {WithoutNode(st.pq_items, node)}} : TRUE

\* as dequeue_pq, leaving the displayed queue as it is
dequeue_pqKept(st, dist, node) == st

\* dequeue_pq(dist, node) on the displayed queue
dequeue_pq(st, dist, node) ==
    IF st.pq_items = <<>> THEN st
    ELSE IF \E i \in 1..Len(st.pq_items) : st.pq_items[i] = <<dist, node>>
    THEN [st EXCEPT
            !.pq_items = RemoveAt(@, CHOOSE i \in 1..Len(@) :
                                        /\ @[i] = <<dist, node>>
                                        /\ \A j \in 1..(i - 1) : @[j] # <<dist, node>>),
            !.in_pq = @ \ {node}]
    ELSE st

\* as Finalized, never recognising a finalized vertex
FinalizedNever(u, vis) == FALSE

\* `u in visited`: the popped entry is stale, or the neighbour is already finalized
Finalized(u, vis) == u \in vis

\* as Improves, relaxing on equal distances too
ImprovesOrEqual(new_dist_v, old_dist_v) == new_dist_v <= old_dist_v

\* the relaxation test `new_dist_v < old_dist_v`
Improves(new_dist_v, old_dist_v) == new_dist_v < old_dist_v

\* as NewDistance, taking the edge weight alone
NewDistanceWeightOnly(dist_u, weight) == weight

\* new_dist_v = distances[u] + weight
NewDistance(dist_u, weight) == dist_u + weight

\* as Relax, with `parent[v] = u` left out
RelaxNoParent(st, u, v, weight) ==
    IF Finalized(v, st.visited) THEN st
    ELSE IF Improves(NewDistance(st.distances[u], weight), st.distances[v])
    THEN enqueue_pq([st EXCEPT
                       !.distances = [@ EXCEPT ![v] = NewDistance(st.distances[u], weight)],
                       !.pq = Append(@, <<NewDistance(st.distances[u], weight), v>>),
                       !.trace = Append(@, <<"append", v>>)],
                    NewDistance(st.distances[u], weight), v)
    ELSE st

\* one iteration of `for v, weight in adj[u]`
Relax(st, u, v, weight) ==
    IF Finalized(v, st.visited) THEN st
    ELSE IF Improves(NewDistance(st.distances[u], weight), st.distances[v])
    THEN enqueue_pq([st EXCEPT
                       !.distances = [@ EXCEPT ![v] = NewDistance(st.distances[u], weight)],
                       !.parent = DictSet(@, v, u),
                       !.pq = Append(@, <<NewDistance(st.distances[u], weight), v>>),
                       !.trace = Append(@, <<"append", v>>)],
                    NewDistance(st.distances[u], weight), v)
    ELSE st

\* the relaxation loop over adj[u]
RECURSIVE RelaxAll(_, _, _)
RelaxAll(st, u, nbrs) ==
    IF nbrs = <<>> THEN st
    ELSE CHOOSE r \in {RelaxAll(s, u, Tail(nbrs)) :
                          s \in {Relax(st, u, Head(nbrs)[1], Head(nbrs)[2])}} : TRUE

DijState ==
    [distances |-> distances, parent |-> parent, pq |-> pq, pq_items |-> pq_items,
     in_pq |-> in_pq, visited |-> visited, trace |-> trace]

\* state before the loop: distances[0] = 0; pq = [(0, 0)]; enqueue_pq(0, 0)
InitDijkstra ==
    \E g \in WeightedInputs :
        /\ scene = "dijkstra"
        /\ vertices = g.v
        /\ edges = g.e
        /\ edge_weights = g.w
        /\ start = 0
        /\ pc = "loop"
        /\ visited = {}
        /\ traversal_order = <<>>
        /\ tree_edges = <<>>
        /\ distances = [v \in Range(g.v) |-> IF v = 0 THEN 0 ELSE Inf]
        /\ parent = <<>>
        /\ pq = << <<0, 0>> >>
        /\ pq_items = << <<0, 0>> >>
        /\ in_pq = {0}
        /\ trace = << <<"append", 0>> >>
        /\ BfsIdle
        /\ DfsIdle
        /\ EulerIdle
        /\ HamIdle
        /\ SeqIdle

\* one iteration of `while pq:`
DijkstraStep ==
    /\ scene = "dijkstra"
    /\ pc = "loop"
    /\ pq # <<>>
    /\ \E top \in {HeapPop(pq)} :
       \E u \in {top.item[2]} :
       \E popped \in {dequeue_pq([DijState EXCEPT !.pq = top.rest,
                                                  !.trace = Append(@, <<"pop", u>>)],
                                 top.item[1], u)} :
       \E nbrs \in {AdjWeighted(edges, u)} :
       \E st \in {IF Finalized(u, visited)
                   THEN [popped EXCEPT !.trace = Append(@, <<"skip", u>>)]
                   ELSE RelaxAll([popped EXCEPT !.visited = @ \cup {u}], u, nbrs)} :
           /\ pq' = st.pq
           /\ pq_items' = st.pq_items
           /\ in_pq' = st.in_pq
           /\ visited' = st.visited
           /\ distances' = st.distances
           /\ parent' = st.parent
           /\ trace' = st.trace
           /\ traversal_order' = IF Finalized(u, visited) THEN traversal_order
                                 ELSE Append(traversal_order, u)
    /\ UNCHANGED <<graphVars, hamVars, seqVars, pc, tree_edges, bfsVars, dfsVars, eulerVars>>

\* `while pq:` exits
DijkstraExit ==
    /\ scene = "dijkstra"
    /\ pc = "loop"
    /\ pq = <<>>
    /\ pc' = "done"
    /\ UNCHANGED <<graphVars, hamVars, seqVars,
                   visited, traversal_order, tree_edges, distances, trace,
                   bfsVars, dfsVars, dijVars, eulerVars>>

NextDijkstra == DijkstraStep \/ DijkstraExit

SpecDijkstra == InitDijkstra /\ [][NextDijkstra]_vars

---------------------------------------------------------------------------
(* Hierholzer's walk: the `while True:` loop of EulerianPaths.construct *)

\* generated graphs of the walk have the vertices 0 .. NumE-1
NumE == 4

\* the scene's 11-edge example, walked from vertex 5
HierholzerVertices == <<1, 2, 3, 4, 5, 6, 7, 8, 9>>

HierholzerEdges ==
    << <<1, 2>>, <<1, 6>>, <<1, 8>>, <<1, 9>>, <<2, 3>>, <<2, 4>>, <<2, 8>>, <<3, 4>>,
       <<5, 8>>, <<6, 9>>, <<7, 8>> >>

EulerPairs == {p \in (0..NumE-1) \X (0..NumE-1) : p[1] < p[2]}

\* every simple graph on 0..NumE-1 from every start vertex, and the scene's example
EulerInputs ==
    {[v |-> [i \in 1..NumE |-> i - 1], e |-> PairList(S), s |-> x] :
        S \in SUBSET EulerPairs, x \in 0..NumE-1}
        \cup {[v |-> HierholzerVertices, e |-> HierholzerEdges, s |-> 5]}

\* as WalkNeighbours, without the `elif v == current_vertex` branch
WalkNeighboursOneWay(rem, cur) == {e[2] : e \in {d \in rem : d[1] = cur}}

\* the vertices the remaining edges join to cur: `if u == current_vertex ... elif
\* v == current_vertex ...` over the set remaining_edges
WalkNeighbours(rem, cur) ==
    {e[2] : e \in {d \in rem : d[1] = cur}}
        \cup {e[1] : e \in {d \in rem : d[1] # cur /\ d[2] = cur}}

\* state before the loop
InitEuler ==
    \E g \in EulerInputs :
        /\ scene = "hierholzer"
        /\ vertices = g.v
        /\ edges = g.e
        /\ edge_weights = <<>>
        /\ start = g.s
        /\ pc = "loop"
        /\ visited = {}
        /\ traversal_order = <<>>
        /\ tree_edges = <<>>
        /\ distances = <<>>
        /\ trace = <<>>
        /\ current_vertex = g.s
        /\ stack_vertices = <<>>
        /\ stack_visual_items = <<>>
        /\ circuit = <<>>
        /\ remaining_edges = {<<Min(e[1], e[2]), Max(e[1], e[2])>> : e \in Range(g.e)}
        /\ final_circuit = <<>>
        /\ BfsIdle
        /\ DfsIdle
        /\ DijIdle
        /\ HamIdle
        /\ SeqIdle

\* the current vertex has neighbours: push it, take neighbors[0] (any member, the list
\* is read off a set) and remove the edge walked
HierholzerAdvance ==
    /\ scene = "hierholzer"
    /\ pc = "loop"
    /\ \E next_vertex \in WalkNeighbours(remaining_edges, current_vertex) :
          /\ stack_vertices' = Append(stack_vertices, current_vertex)
          /\ stack_visual_items' = Append(stack_visual_items, current_vertex)
          /\ remaining_edges' = remaining_edges \
                {<<Min(current_vertex, next_vertex), Max(current_vertex, next_vertex)>>}
          /\ current_vertex' = next_vertex
    /\ UNCHANGED <<graphVars, hamVars, seqVars,
                   pc, visited, traversal_order, tree_edges, distances, trace,
                   bfsVars, dfsVars, dijVars, circuit, final_circuit>>

\* the current vertex has no neighbour: append it to the circuit, then stop when the
\* stack is empty (the reversed circuit is the result), else pop the stack
HierholzerRetreat ==
    /\ scene = "hierholzer"
    /\ pc = "loop"
    /\ WalkNeighbours(remaining_edges, current_vertex) = {}
    /\ circuit' = Append(circuit, current_vertex)
    /\ IF Len(stack_vertices) = 0
       THEN /\ pc' = "done"
            /\ final_circuit' = Reversed(circuit')
            /\ UNCHANGED <<current_vertex, stack_vertices, stack_visual_items>>
       ELSE /\ current_vertex' = Last(stack_vertices)
            /\ stack_vertices' = Front(stack_vertices)
            /\ stack_visual_items' = IF Len(stack_visual_items) > 0
                                     THEN Front(stack_visual_items)
                                     ELSE stack_visual_items
            /\ UNCHANGED <<pc, final_circuit>>
    /\ UNCHANGED <<graphVars, hamVars, seqVars,
                   visited, traversal_order, tree_edges, distances, trace,
                   bfsVars, dfsVars, dijVars, remaining_edges>>

NextEuler == HierholzerAdvance \/ HierholzerRetreat

SpecEuler == InitEuler /\ [][NextEuler]_vars

---------------------------------------------------------------------------
(* Reference definitions the kernels are compared with *)

V == Range(vertices)

Linked(u, v) == \E i \in 1..Len(edges) : edges[i] = <<u, v>> \/ edges[i] = <<v, u>>

\* S and the vertices one edge away from S
Grow(S) == S \cup {v \in V : \E u \in S : Linked(u, v)}

\* the vertices within k edges of src
RECURSIVE Ball(_, _)
Ball(src, k) == IF k = 0 THEN {src} ELSE UNION {Grow(B) : B \in {Ball(src, k - 1)}}

Reachable(src) == Ball(src, Len(vertices))

\* number of edges on a shortest path from src to a reachable v
HopDistance(src, v) ==
    CHOOSE k \in 0..Len(vertices) : v \in Ball(src, k) /\ (k = 0 \/ v \notin Ball(src, k - 1))

\* s lists exactly the members of S, each once
ListsEachOnce(s, S) == Range(s) = S /\ Len(s) = Cardinality(S)

\* weight of the edge joining u and v
Weight(u, v) == IF <<u, v>> \in DOMAIN edge_weights THEN edge_weights[<<u, v>>]
                ELSE edge_weights[<<v, u>>]

MinOf(S) == CHOOSE m \in S : \A x \in S : m <= x

\* Bellman-Ford: D improved by one more edge
Shorten(D) ==
    [v \in V |-> MinOf({D[v]} \cup {D[u] + Weight(u, v) :
                                       u \in {x \in V : Linked(x, v) /\ D[x] # Inf}})]

\* least weight of a path of at most k edges from vertex 0 (Inf when there is none)
RECURSIVE PathWeights(_)
PathWeights(k) ==
    IF k = 0 THEN [v \in V |-> IF v = 0 THEN 0 ELSE Inf]
    ELSE CHOOSE r \in {Shorten(D) : D \in {PathWeights(k - 1)}} : TRUE

ShortestWeights == PathWeights(Len(vertices))

\* number of edge ends at v
Degree(v) ==
    Cardinality({i \in 1..Len(edges) : edges[i][1] = v})
        + Cardinality({i \in 1..Len(edges) : edges[i][2] = v})

OddVertices == {v \in V : Degree(v) % 2 = 1}

\* the Eulerian degree condition on a connected graph, walked from an odd vertex when
\* there is one
EulerianFrom(src) ==
    /\ Reachable(src) = V
    /\ Cardinality(OddVertices) \in {0, 2}
    /\ OddVertices # {} => src \in OddVertices

\* walk uses the edge e between its positions i and i+1
WalksEdge(walk, i, e) ==
    (walk[i] = e[1] /\ walk[i + 1] = e[2]) \/ (walk[i] = e[2] /\ walk[i + 1] = e[1])

\* walk is a trail over every edge of the graph: consecutive vertices are joined by
\* an edge, and each edge is used exactly once
EulerTrail(walk) ==
    /\ Len(walk) = Len(edges) + 1
    /\ \A i \in 1..(Len(walk) - 1) : Linked(walk[i], walk[i + 1])
    /\ \A k \in 1..Len(edges) :
          Cardinality({i \in 1..(Len(walk) - 1) : WalksEdge(walk, i, edges[k])}) = 1

InBFS == scene \in {"bfs", "run_queue_bfs"}

InDFS == scene \in {"dfs_rec", "dfs_iter"}

\* the distance a BFS run recorded for v (Inf when it recorded none)
RecordedDistance(v) ==
    IF scene = "bfs" THEN distances[v]
    ELSE IF v \in DOMAIN dist_local THEN dist_local[v] ELSE Inf

---------------------------------------------------------------------------
(* Breadth-first search claims *)

\* the BFS run has ended: its loop is over and the steps after it have returned or
\* raised
BfsOver == pc \in {"done", "KeyError"}

\* C1: when a BFS run (main scene loop or run_queue_bfs) ends, the distance recorded
\* for every vertex reachable from the source is the number of edges on a shortest
\* path from the source to it.
C1_BFSDistancesShortest ==
    (InBFS /\ BfsOver) =>
        LET reached == Reachable(start)
        IN  \A v \in reached : RecordedDistance(v) = HopDistance(start, v)

\* a finished run_queue_bfs on a graph with a cycle and a vertex two edges away
C1_Witness ==
    /\ scene = "run_queue_bfs"
    /\ pc = "done"
    /\ Len(edges) >= Len(vertices)
    /\ \E v \in Reachable(start) : HopDistance(start, v) = 2 /\ RecordedDistance(v) = 2

\* C7: each vertex is appended to the work queue at most once, every appended vertex
\* is removed exactly once by the end of the run, and no entry is dequeued for a
\* vertex that is already visited.
C7_BFSEnqueuedOnce ==
    InBFS =>
        \A v \in V :
            /\ Count(trace, <<"append", v>>) <= 1
            /\ Count(trace, <<"pop", v>>) <= Count(trace, <<"append", v>>)
            /\ BfsOver => Count(trace, <<"pop", v>>) = Count(trace, <<"append", v>>)
            /\ Count(trace, <<"skip", v>>) = 0
            /\ Cardinality({i \in 1..Len(queue) : queue[i][1] = v}) <= 1

\* a finished BFS in which a vertex with two visited neighbours was appended once
C7_Witness ==
    /\ InBFS
    /\ pc = "done"
    /\ \E v \in V \ {start} :
          /\ Count(trace, <<"append", v>>) = 1
          /\ Count(trace, <<"pop", v>>) = 1
          /\ Cardinality({u \in Range(traversal_order) : Linked(u, v)}) >= 2

\* work left to a BFS run: two per undiscovered vertex, one per queued entry, one for
\* the loop exit
BfsWorkLeft ==
    2 * Cardinality(V \ (visited \cup in_queue)) + Len(queue) + (IF BfsOver THEN 0 ELSE 1)

\* C8: BFS terminates (an unfinished run can always take a step, and every step
\* takes from the finite work left) with an empty work queue, and then
\* traversal_order lists every vertex reachable from the source exactly once and no
\* other vertex.
C8_BFSTerminates ==
    /\ [](BfsOver \/ ENABLED NextBFS)
    /\ [][BfsWorkLeft' < BfsWorkLeft]_vars
    /\ [](BfsWorkLeft >= 0)
    /\ [](BfsOver =>
            queue = <<>> /\ ListsEachOnce(traversal_order, Reachable(start)))

\* a finished BFS that left a vertex unreached and visited at least three
C8_Witness ==
    /\ InBFS
    /\ pc = "done"
    /\ queue = <<>>
    /\ Len(traversal_order) >= 3
    /\ V \ Reachable(start) # {}

SceneBFSDistances == (0 :> 0) @@ (1 :> 1) @@ (2 :> 1) @@ (3 :> 2) @@ (4 :> 2) @@ (5 :> 2) @@ (6 :> 3)

OnSceneGraph == vertices = SceneVertices /\ edges = SceneEdges

\* C9: on the 7-vertex scene graph BFS from 0 ends with distances
\* {0:0,1:1,2:1,3:2,4:2,5:2,6:3} and traversal_order [0,1,2,3,4,5,6].
C9_BFSSceneResult ==
    (scene = "bfs" /\ OnSceneGraph /\ pc = "done") =>
        /\ distances = SceneBFSDistances
        /\ traversal_order = <<0, 1, 2, 3, 4, 5, 6>>

\* the main BFS scene finished on its 7-vertex graph
C9_Witness ==
    /\ scene = "bfs"
    /\ OnSceneGraph
    /\ pc = "done"
    /\ Len(traversal_order) = 7

\* C14: when a BFS run ends, every vertex not reachable from the source has distance
\* infinity, and the steps after the loop give it no parity colour, list no edge at it
\* as joining same-parity vertices, and put it in no layer.
C14_UnreachableStaysInfinite ==
    (InBFS /\ BfsOver) =>
        \A v \in V \ Reachable(start) :
            /\ RecordedDistance(v) = Inf
            /\ v \notin DOMAIN parity_color
            /\ \A i \in 1..Len(bad_edges) : v \notin {bad_edges[i][1], bad_edges[i][2]}
            /\ \A d \in DOMAIN layers : v \notin Range(layers[d])

---------------------------------------------------------------------------
(* Depth-first search claims *)

\* iterations left to the neighbour loops of the active dfs_animation calls, and one
\* return for each
RECURSIVE FramesLeft(_)
FramesLeft(k) ==
    IF k = 0 THEN 0
    ELSE Len(frames[k].neighbors) - frames[k].i + 2 + FramesLeft(k - 1)

\* work left to a DFS run: each unvisited vertex costs at most a neighbour loop over
\* every edge end and a return (or a batch of pushes), each open frame its remaining
\* iterations, each stacked entry a pop
DfsWorkLeft ==
    (2 * Len(edges) + 3) * Cardinality(V \ visited) + FramesLeft(Len(frames)) + Len(stack)
        + (IF pc = "done" THEN 0 ELSE 1)

\* C4: both DFS variants end (an unfinished run can always take a step, and every
\* step takes from the finite work left), and end with traversal_order listing every
\* vertex reachable from the source exactly once and no unreachable vertex.
C4_DFSVisitsReachableOnce ==
    /\ [](pc = "done" \/ ENABLED NextDFS)
    /\ [][DfsWorkLeft' < DfsWorkLeft]_vars
    /\ [](DfsWorkLeft >= 0)
    /\ [](pc = "done" => ListsEachOnce(traversal_order, Reachable(start)))

\* a finished DFS on a graph with a cycle through visited vertices and an unreached vertex
C4_Witness ==
    /\ InDFS
    /\ pc = "done"
    /\ Len(traversal_order) >= 3
    /\ Len(edges) >= Len(traversal_order)
    /\ V \ Reachable(start) # {}

TreeLinked(u, v) ==
    \E i \in 1..Len(tree_edges) : tree_edges[i] = <<u, v>> \/ tree_edges[i] = <<v, u>>

\* the vertices joined to the source by at most k tree edges on a path avoiding x
RECURSIVE TreeBall(_, _)
TreeBall(x, k) ==
    IF start = x THEN {}
    ELSE IF k = 0 THEN {start}
    ELSE UNION {B \cup {v \in V \ {x} : \E u \in B : TreeLinked(u, v)} :
                  B \in {TreeBall(x, k - 1)}}

\* u is v or an ancestor of v in the recorded tree rooted at the source: every tree
\* path from the source to v passes through u
AncestorOrSelf(u, v) == v \notin TreeBall(u, Len(vertices))

\* the recorded tree edges span the reached vertices
TreeSpans ==
    /\ Len(tree_edges) = Len(traversal_order) - 1
    /\ \A v \in Range(traversal_order) : v \in TreeBall(None, Len(vertices))

\* C5: in both DFS variants the recorded tree edges form a depth-first tree of the
\* reached vertices: every graph edge between reached vertices joins a vertex to one
\* of its ancestors or descendants in that tree.
C5_DFSTreeIsDepthFirst ==
    (InDFS /\ pc = "done") =>
        /\ TreeSpans
        /\ \A i \in 1..Len(edges) :
              (edges[i][1] \in visited /\ edges[i][2] \in visited) =>
                  \/ AncestorOrSelf(edges[i][1], edges[i][2])
                  \/ AncestorOrSelf(edges[i][2], edges[i][1])

Unvisited(n) == n \notin visited

\* C6: in the iterative DFS a neighbour already on the stack is pushed again: every
\* visit pushes all neighbours of the visited vertex that are not visited, so an
\* unvisited vertex can be stacked several times.
C6_PushIgnoresInStack ==
    (scene = "dfs_iter" /\ traversal_order # <<>>) =>
        neighbors_to_push = SelectSeq(Reversed(adj(Last(traversal_order))), Unvisited)

\* the traversals that record tree edges: the main BFS scene and both DFS variants
InitTraversal == InitBFS \/ InitDFS

NextTraversal == NextBFS \/ NextDFS

SpecTraversal == InitTraversal /\ [][NextTraversal]_vars

\* position of a visited vertex in traversal_order
VisitIndex(v) == CHOOSE i \in 1..Len(traversal_order) : traversal_order[i] = v

\* the end of a tree entry that was visited later
ChildEnd(e) == IF VisitIndex(e[1]) < VisitIndex(e[2]) THEN e[2] ELSE e[1]

\* C15: after the main BFS, the recursive DFS or the iterative DFS, tree_edges has one
\* entry fewer than there are reached vertices, every entry is an edge of the graph
\* between reached vertices, every reached vertex other than the source is the child
\* end of exactly one entry, and the entries connect every reached vertex to the
\* source (so they form a tree).
C15_TreeEdgesSpanningTree ==
    (scene \in {"bfs", "dfs_rec", "dfs_iter"} /\ pc = "done") =>
        /\ Len(tree_edges) = Cardinality(visited) - 1
        /\ \A i \in 1..Len(tree_edges) :
              /\ Linked(tree_edges[i][1], tree_edges[i][2])
              /\ tree_edges[i][1] \in visited /\ tree_edges[i][2] \in visited
        /\ \A v \in visited \ {start} :
              Cardinality({i \in 1..Len(tree_edges) : ChildEnd(tree_edges[i]) = v}) = 1
        /\ \A i \in 1..Len(tree_edges) : ChildEnd(tree_edges[i]) # start
        /\ \A v \in visited : v \in TreeBall(None, Len(vertices))

\* a finished iterative DFS over a graph with a cycle: four vertices reached, more
\* edges than tree entries
C15_Witness ==
    /\ scene = "dfs_iter"
    /\ pc = "done"
    /\ Len(tree_edges) = 3
    /\ Len(edges) > Len(tree_edges)

---------------------------------------------------------------------------
(* Dijkstra claims *)

\* C2: when run_dijkstra_example's loop ends on a graph with non-negative weights,
\* distances[v] of every vertex reachable from vertex 0 is the least weight of a path
\* from 0 to v, and distances[v] of every unreachable vertex is still infinity.
C2_DijkstraDistancesShortest ==
    (scene = "dijkstra" /\ pc = "done") =>
        \A reached \in {Reachable(0)} : \A least \in {ShortestWeights} :
            \A v \in V :
                IF v \in reached THEN distances[v] = least[v] ELSE distances[v] = Inf

\* a finished run in which a neighbour of the source ended closer than its direct edge
C2_Witness ==
    /\ scene = "dijkstra"
    /\ pc = "done"
    /\ \E v \in V : Linked(0, v) /\ distances[v] < Weight(0, v)

SceneDijkstraDistances ==
    (0 :> 0) @@ (1 :> 4) @@ (2 :> 2) @@ (3 :> 9) @@ (4 :> 7) @@ (5 :> 8) @@ (6 :> 9)

\* C10: on the 7-vertex graph with weights (0,1):4,(0,2):2,(1,3):5,(1,4):3,(2,5):6,
\* (3,6):4,(4,6):2 Dijkstra from 0 ends with distances {0:0,1:4,2:2,3:9,4:7,5:8,6:9}.
C10_DijkstraSceneResult ==
    (scene = "dijkstra" /\ OnSceneGraph /\ edge_weights = Example2Weights /\ pc = "done") =>
        distances = SceneDijkstraDistances

\* Example 2 of the Dijkstra scene finished
C10_Witness ==
    /\ scene = "dijkstra"
    /\ OnSceneGraph
    /\ edge_weights = Example2Weights
    /\ pc = "done"
    /\ Len(traversal_order) = 7

\* C11: a Dijkstra step that pops an entry of a vertex not yet finalized adds the
\* vertex to visited (and to traversal_order); a step that pops an entry of a finalized
\* vertex changes none of distances, parent, visited, traversal_order; and no step
\* changes distances[v] of a finalized v.
C11_FinalizedOnFirstPop ==
    [][(scene = "dijkstra" /\ pc = "loop" /\ pq # <<>>) =>
          \E u \in {HeapPop(pq).item[2]} :
              /\ u \in visited'
              /\ IF u \in visited
                 THEN /\ distances' = distances
                      /\ parent' = parent
                      /\ visited' = visited
                      /\ traversal_order' = traversal_order
                 ELSE /\ visited' = visited \cup {u}
                      /\ traversal_order' = Append(traversal_order, u)
              /\ \A v \in visited : distances'[v] = distances[v]]_vars

\* a stale entry was popped: its vertex had been finalized by an earlier pop
C11_Witness ==
    /\ scene = "dijkstra"
    /\ \E v \in visited : Count(trace, <<"skip", v>>) >= 1 /\ Count(trace, <<"pop", v>>) >= 2

\* number of heap entries of vertex v
HeapEntries(h, v) == Cardinality({i \in 1..Len(h) : h[i][2] = v})

\* C12: when a Dijkstra step finalizes u, for every unfinalized neighbour v over an edge
\* of weight w: if distances[u] + w < distances[v] then distances[v] becomes
\* distances[u] + w, parent[v] becomes u and the entry (distances[v], v) is pushed on
\* the heap; otherwise distances[v], parent[v] and the heap entries of v are unchanged,
\* as they are for every vertex that is no such neighbour.  No distance increases.
C12_RelaxationRule ==
    [][(scene = "dijkstra" /\ pc = "loop" /\ pq # <<>>) =>
          \E top \in {HeapPop(pq)} : \E u \in {top.item[2]} :
              \A v \in V :
                  /\ distances'[v] <= distances[v]
                  /\ IF u \notin visited /\ v \notin visited /\ v # u /\ Linked(u, v)
                        /\ distances[u] + Weight(u, v) < distances[v]
                     THEN /\ distances'[v] = distances[u] + Weight(u, v)
                          /\ v \in DOMAIN parent' /\ parent'[v] = u
                          /\ HeapEntries(pq', v) = HeapEntries(top.rest, v) + 1
                          /\ Count(pq', <<distances'[v], v>>)
                                = Count(top.rest, <<distances'[v], v>>) + 1
                     ELSE /\ distances'[v] = distances[v]
                          /\ (v \in DOMAIN parent') = (v \in DOMAIN parent)
                          /\ v \in DOMAIN parent => parent'[v] = parent[v]
                          /\ \A e \in Range(pq) \cup Range(pq') :
                                e[2] = v => Count(pq', e) = Count(top.rest, e)]_vars

\* a vertex whose finite tentative distance was improved: it was pushed twice
C12_Witness ==
    /\ scene = "dijkstra"
    /\ \E v \in V : Count(trace, <<"append", v>>) >= 2 /\ v \in DOMAIN parent

\* following at most k parent pointers from v leads to the source
RECURSIVE ParentReaches(_, _)
ParentReaches(v, k) ==
    \/ v = 0
    \/ k > 0 /\ v \in DOMAIN parent /\ ParentReaches(parent[v], k - 1)

\* C13: when Dijkstra ends, every reachable vertex v other than the source has a
\* parent u joined to it by an edge with distances[v] = distances[u] + weight(u, v),
\* its parent pointers lead to the source, and the source and the unreachable vertices
\* have no parent.
C13_ParentPointers ==
    (scene = "dijkstra" /\ pc = "done") =>
        \A reached \in {Reachable(0)} :
            /\ DOMAIN parent = reached \ {0}
            /\ \A v \in reached \ {0} :
                  /\ Linked(parent[v], v)
                  /\ distances[v] = distances[parent[v]] + Weight(parent[v], v)
                  /\ ParentReaches(v, Len(vertices))

\* a finished run in which a vertex was re-parented away from the source
C13_Witness ==
    /\ scene = "dijkstra"
    /\ pc = "done"
    /\ \E v \in DOMAIN parent :
          /\ parent[v] # 0
          /\ Linked(0, v)
          /\ Count(trace, <<"append", v>>) >= 2

---------------------------------------------------------------------------
(* Hierholzer claims *)

\* C3: on a connected graph with zero or two odd-degree vertices, walked from an
\* odd-degree vertex when one exists, whichever neighbour is taken at each step, the
\* reversed circuit lists |E|+1 vertices, every consecutive pair is an edge of the
\* graph, and every edge of the graph is used exactly once.
C3_HierholzerTrail ==
    (scene = "hierholzer" /\ pc = "done" /\ EulerianFrom(start)) => EulerTrail(final_circuit)

\* a finished walk over a graph of at least four edges with two odd-degree vertices
C3_Witness ==
    /\ scene = "hierholzer"
    /\ pc = "done"
    /\ EulerianFrom(start)
    /\ Cardinality(OddVertices) = 2
    /\ Len(edges) >= 4
    /\ Len(final_circuit) = Len(edges) + 1

\* work left to the walk: two per unused edge, one per stacked vertex, one for the exit
EulerWorkLeft ==
    2 * Cardinality(remaining_edges) + Len(stack_vertices) + (IF pc = "done" THEN 0 ELSE 1)

\* no unused edge ends at vertex x
NoEdgeLeftAt(x) == \A e \in remaining_edges : x # e[1] /\ x # e[2]

\* C16: the Hierholzer loop terminates on every graph (an unfinished walk can always
\* take a step, and every step takes from the finite work left); it exits only with
\* no unused edge at the current vertex and an empty stack; and on a connected graph
\* with zero or two odd-degree vertices no edge is unused at the exit.
C16_HierholzerTerminates ==
    /\ [](scene = "hierholzer" => (pc = "done" \/ ENABLED NextEuler))
    /\ [][EulerWorkLeft' < EulerWorkLeft]_vars
    /\ [](EulerWorkLeft >= 0)
    /\ []((scene = "hierholzer" /\ pc = "done") =>
            /\ NoEdgeLeftAt(current_vertex)
            /\ stack_vertices = <<>>
            /\ (Reachable(start) = V /\ Cardinality(OddVertices) \in {0, 2})
                    => remaining_edges = {})

\* a walk that backtracked over its stack and then exited with every edge used
C16_Witness ==
    /\ scene = "hierholzer"
    /\ pc = "done"
    /\ Len(edges) >= 4
    /\ remaining_edges = {}
    /\ stack_vertices = <<>>
    /\ Len(circuit) = Len(edges) + 1

\* C17: on a graph with more than two odd-degree vertices the walk is run all the same
\* and reaches no error state; it ends with a vertex sequence that starts at the start
\* vertex (of |E|+1 vertices when the graph is connected) and is not an Euler trail:
\* some consecutive pair is not an edge, or some edge is not used exactly once.
C17_ViolatingDegreeSilent ==
    (scene = "hierholzer" /\ Cardinality(OddVertices) > 2) =>
        /\ pc \in {"loop", "done"}
        /\ pc = "done" =>
              /\ final_circuit # <<>>
              /\ final_circuit[1] = start
              /\ Reachable(start) = V => Len(final_circuit) = Len(edges) + 1
              /\ ~EulerTrail(final_circuit)

\* a finished walk over a connected graph with four odd-degree vertices
C17_Witness ==
    /\ scene = "hierholzer"
    /\ pc = "done"
    /\ Cardinality(OddVertices) = 4
    /\ Reachable(start) = V
    /\ Len(final_circuit) = Len(edges) + 1
    /\ \E i \in 1..(Len(final_circuit) - 1) : ~Linked(final_circuit[i], final_circuit[i + 1])

---------------------------------------------------------------------------
(* Hamiltonian cycle scene: HamiltonConcepts.construct (hamiltonian_path.py) *)

\* v_alg = [1, 2, 3, 4, 5]
v_alg == <<1, 2, 3, 4, 5>>

\* e_alg, the scene's edge list: both <<4, 5>> and <<5, 4>> are listed, <<5, 1>> is not
e_alg == << <<1, 2>>, <<2, 3>>, <<3, 4>>, <<4, 5>>, <<3, 5>>, <<5, 4>>, <<4, 1>> >>

\* start_v = 1
start_v == 1

HamPairs == {p \in Range(v_alg) \X Range(v_alg) : p[1] < p[2]}

\* the edge lists the steps are run on: the scene's own e_alg, and every simple graph
\* on the vertices of v_alg in its place
HamEdgeLists == {PairList(S) : S \in SUBSET HamPairs} \cup {e_alg}

\* as HasEdge, answering yes for every key
HasEdgeAlways(key) == TRUE

\* `key in alg_graph.edges`: the keys of alg_graph.edges are the listed pairs
HasEdge(key) == key \in Range(edges)

\* get_edge_key(u, v)
get_edge_key(u, v) ==
    IF HasEdge(<<u, v>>) THEN <<u, v>>
    ELSE IF HasEdge(<<v, u>>) THEN <<v, u>>
    ELSE <<Min(u, v), Max(u, v)>>

\* the messages the script passes to update_status, by the keyword they contain
ExploringMessages == {"Exploring path...", "Exploring alternative path 3 -> 5..."}

DeadEndMessages ==
    {"At vertex 5: no edge to start vertex 1! Dead end.",
     "Dead end: no edge 4 -> 1. Cannot complete cycle."}

BacktrackingMessages ==
    {"Backtracking: removing vertex 5 from path...",
     "Backtracking: removing vertex 4 from path..."}

CycleFoundMessages == {"Hamiltonian cycle found: 1 -> 2 -> 3 -> 5 -> 4 -> 1"}

\* update_status(msg): the short message shown afterwards; a message with none of the
\* keywords leaves the status line as it is
update_status(shown, msg) ==
    IF msg \in ExploringMessages THEN "Exploring..."
    ELSE IF msg \in DeadEndMessages THEN "Dead end"
    ELSE IF msg \in BacktrackingMessages THEN "Backtracking..."
    ELSE IF msg \in CycleFoundMessages THEN "Hamiltonian cycle found"
    ELSE shown

\* push_to_stack(vertex)
push_to_stack(items, vertex) == Append(items, vertex)

\* as pop_from_stack, leaving the displayed stack as it is
pop_from_stackKept(items) == items

\* pop_from_stack()
pop_from_stack(items) == IF Len(items) > 0 THEN Front(items) ELSE items

\* the vertex sequence the final message names: 1 -> 2 -> 3 -> 5 -> 4 -> 1
AnnouncedCycle == <<1, 2, 3, 5, 4, 1>>

\* the rest of the model's state while this scene runs
HamOthersIdle ==
    /\ edge_weights = <<>>
    /\ visited = {}
    /\ traversal_order = <<>>
    /\ tree_edges = <<>>
    /\ distances = <<>>
    /\ trace = <<>>
    /\ BfsIdle
    /\ frames = <<>>
    /\ stack = <<>>
    /\ in_stack = {}
    /\ neighbors_to_push = <<>>
    /\ DijIdle
    /\ EulerIdle
    /\ SeqIdle

hamFrame ==
    <<graphVars, seqVars, visited, traversal_order, tree_edges, distances, bfsVars,
      frames, stack, in_stack, neighbors_to_push, dijVars, eulerVars>>

\* state after the initialization: the start vertex on the path, in the visited set,
\* on the displayed stack and in the displayed visited list
InitHam ==
    \E es \in HamEdgeLists :
        /\ scene = "hamilton"
        /\ vertices = v_alg
        /\ edges = es
        /\ start = start_v
        /\ pc = "step1"
        /\ path = <<start_v>>
        /\ visited_set = {start_v}
        /\ current_path_edges = <<>>
        /\ stack_items = <<start_v>>
        /\ visited_items = <<start_v>>
        /\ status = ""
        /\ saved = <<>>
        /\ HamOthersIdle

\* one scripted extension prev_v -> next_v, preceded by update_status(msg) when the
\* script has one there: the key lookup alg_graph.edges[edge_key] of the highlight
\* raises KeyError for a key that is no edge, after the three lists were extended
\* and before push_to_stack
Extend(at, prev_v, next_v, msg, to) ==
    /\ scene = "hamilton"
    /\ pc = at
    /\ \E edge_key \in {get_edge_key(prev_v, next_v)} :
          /\ status' = update_status(status, msg)
          /\ path' = Append(path, next_v)
          /\ visited_set' = visited_set \cup {next_v}
          /\ current_path_edges' = Append(current_path_edges, edge_key)
          /\ saved' = Append(saved, <<path, visited_set, current_path_edges, stack_items>>)
          /\ trace' = Append(trace, <<"extend", next_v>>)
          /\ IF HasEdge(edge_key)
             THEN /\ stack_items' = push_to_stack(stack_items, next_v)
                  /\ visited_items' = Append(visited_items, next_v)
                  /\ pc' = to
             ELSE /\ pc' = "KeyError"
                  /\ UNCHANGED <<stack_items, visited_items>>
    /\ UNCHANGED hamFrame

\* Step 1: Try 1 -> 2
Step1 == Extend("step1", start_v, 2, "Exploring path...", "step2")

\* Step 2: Try 2 -> 3
Step2 == Extend("step2", 2, 3, "", "step3")

\* Step 3: Try 3 -> 4
Step3 == Extend("step3", 3, 4, "", "step4")

\* Step 4: Try 4 -> 5
Step4 == Extend("step4", 4, 5, "At vertex 4: going to vertex 5...", "check5")

\* At vertex 5: `if return_edge_key not in alg_graph.edges` for the key of (5, 1)
CheckReturn ==
    /\ scene = "hamilton"
    /\ pc = "check5"
    /\ \E return_edge_key \in {get_edge_key(5, 1)} :
          IF ~HasEdge(return_edge_key)
          THEN /\ status' = update_status(status,
                               "At vertex 5: no edge to start vertex 1! Dead end.")
               /\ trace' = Append(trace, <<"dead end", 5>>)
               /\ pc' = "back5"
          ELSE /\ status' = update_status(status,
                               "At vertex 5: checking cycle completion...")
               /\ trace' = trace
               /\ pc' = "verify"
    /\ UNCHANGED <<path, visited_set, current_path_edges, stack_items, visited_items,
                   saved, hamFrame>>

\* one scripted backtrack: visited_set.remove(v); path.pop(); current_path_edges.pop();
\* the last displayed visited item removed; pop_from_stack()
Backtrack(at, v, msg, to) ==
    /\ scene = "hamilton"
    /\ pc = at
    /\ status' = update_status(status, msg)
    /\ trace' = Append(trace, <<"backtrack", v>>)
    /\ IF v \in visited_set
       THEN /\ visited_set' = visited_set \ {v}
            /\ path' = Front(path)
            /\ current_path_edges' = Front(current_path_edges)
            /\ visited_items' = IF Len(visited_items) > 0 THEN Front(visited_items)
                                ELSE visited_items
            /\ stack_items' = pop_from_stack(stack_items)
            /\ saved' = Front(saved)
            /\ pc' = to
       ELSE /\ pc' = "KeyError"
            /\ UNCHANGED <<visited_set, path, current_path_edges, visited_items,
                           stack_items, saved>>
    /\ UNCHANGED hamFrame

\* BACKTRACK: Pop 5 from stack and path
Backtrack5 == Backtrack("back5", 5, "Backtracking: removing vertex 5 from path...", "back4")

\* BACKTRACK: Pop 4 from stack and path
Backtrack4 == Backtrack("back4", 4, "Backtracking: removing vertex 4 from path...", "alt35")

\* Step: 3 -> 5
Alternative35 == Extend("alt35", 3, 5, "Exploring alternative path 3 -> 5...", "alt54")

\* Step: 5 -> 4
Alternative54 == Extend("alt54", 5, 4, "At vertex 5: going to vertex 4...", "verify")

\* the verification and the closing of the cycle: both counts against len(v_alg),
\* then the key of (4, 1); each failed test returns, the first without showing a
\* message (its text holds none of the keywords)
Verify ==
    /\ scene = "hamilton"
    /\ pc = "verify"
    /\ pc' = "done"
    /\ \E return_edge_key \in {get_edge_key(4, 1)} :
          IF Cardinality(visited_set) # Len(vertices) \/ Len(path) # Len(vertices)
          THEN /\ status' = update_status(status, "Error: Not all vertices visited!")
               /\ trace' = Append(trace, <<"error", path[Len(path)]>>)
               /\ UNCHANGED current_path_edges
          ELSE IF ~HasEdge(return_edge_key)
          THEN /\ status' = update_status(status,
                               "Dead end: no edge 4 -> 1. Cannot complete cycle.")
               /\ trace' = Append(trace, <<"dead end", 4>>)
               /\ UNCHANGED current_path_edges
          ELSE /\ current_path_edges' = Append(current_path_edges, return_edge_key)
               /\ trace' = Append(trace, <<"close", start_v>>)
               /\ status' = update_status(status,
                               "Hamiltonian cycle found: 1 -> 2 -> 3 -> 5 -> 4 -> 1")
    /\ UNCHANGED <<path, visited_set, stack_items, visited_items, saved, hamFrame>>

NextHam ==
    \/ Step1 \/ Step2 \/ Step3 \/ Step4
    \/ CheckReturn
    \/ Backtrack5 \/ Backtrack4
    \/ Alternative35 \/ Alternative54
    \/ Verify

SpecHam == InitHam /\ [][NextHam]_vars

---------------------------------------------------------------------------
(* Claims on the Hamiltonian cycle scene *)

\* the scene running on its own edge list
HamScene == scene = "hamilton" /\ edges = e_alg

\* u and v are joined by a listed edge, in either orientation
HamLinked(u, v) == <<u, v>> \in Range(edges) \/ <<v, u>> \in Range(edges)

\* p visits every vertex of the graph once, along edges, and an edge joins its last
\* vertex to its first
HamiltonianCycle(p) ==
    /\ Len(p) = Len(vertices)
    /\ Range(p) = Range(vertices)
    /\ \A i \in 1..(Len(p) - 1) : HamLinked(p[i], p[i + 1])
    /\ HamLinked(p[Len(p)], p[1])

\* C18: the scene shows "Hamiltonian cycle found" only in a state where path holds as
\* many vertices as the graph, all distinct, consecutive path vertices are joined by
\* an edge, an edge joins the last path vertex to the start vertex, and the announced
\* cycle 1,2,3,5,4,1 is path followed by the start vertex.
C18_AnnouncedCycleValid ==
    (HamScene /\ status = "Hamiltonian cycle found") =>
        /\ Len(path) = Len(vertices)
        /\ Cardinality(Range(path)) = Len(path)
        /\ \A i \in 1..(Len(path) - 1) : HamLinked(path[i], path[i + 1])
        /\ HamLinked(path[Len(path)], start)
        /\ AnnouncedCycle = path \o <<start>>

\* the scene has announced the cycle after backtracking out of 5 and 4
C18_Witness ==
    /\ HamScene
    /\ pc = "done"
    /\ status = "Hamiltonian cycle found"
    /\ path = <<1, 2, 3, 5, 4>>

\* a backtrack step of the scene on its own graph takes the last vertex off path,
\* visited_set and the displayed stack and the last edge off current_path_edges, which
\* gives all four the values recorded before that vertex was added
BacktrackRestores ==
    (HamScene /\ pc \in {"back5", "back4"}) =>
        /\ path' = Front(path)
        /\ visited_set' = visited_set \ {path[Len(path)]}
        /\ current_path_edges' = Front(current_path_edges)
        /\ stack_items' = Front(stack_items)
        /\ <<path', visited_set', current_path_edges', stack_items'>> = saved[Len(saved)]

\* path and visited_set hold the same vertices, each once, and the displayed stack
\* has one box per path vertex
PathMatchesVisited ==
    /\ Range(path) = visited_set
    /\ Cardinality(Range(path)) = Len(path)
    /\ Len(stack_items) = Len(path)

\* C19 as stated: each backtrack step restores path, visited_set, current_path_edges
\* and the displayed stack, and at every step set(path) = visited_set, path has no
\* repeated vertex and len(stack_items) = len(path) = len(current_path_edges) + 1.
C19_BacktrackRestoresLengthsAlways ==
    /\ [][BacktrackRestores]_vars
    /\ [](HamScene => (PathMatchesVisited /\ Len(path) = Len(current_path_edges) + 1))

\* C19, amended: each backtrack step restores path, visited_set, current_path_edges
\* and the displayed stack; at every step set(path) = visited_set, path has no
\* repeated vertex and len(stack_items) = len(path); len(path) =
\* len(current_path_edges) + 1 until the cycle is closed, and closing it appends the
\* return edge to current_path_edges alone, so that len(path) = len(current_path_edges)
\* from then on.
C19_BacktrackRestoresLengthsUntilClosed ==
    /\ [][BacktrackRestores]_vars
    /\ [](HamScene =>
            /\ PathMatchesVisited
            /\ Len(current_path_edges) =
                  IF status = "Hamiltonian cycle found" THEN Len(path) ELSE Len(path) - 1)

\* both backtracks done: the scene stands at vertex 3 again
C19_Witness ==
    /\ HamScene
    /\ pc = "alt35"
    /\ path = <<1, 2, 3>>
    /\ visited_set = {1, 2, 3}
    /\ stack_items = <<1, 2, 3>>
    /\ current_path_edges = << <<1, 2>>, <<2, 3>> >>

\* the orders in which the vertices can be visited from the start vertex
VisitOrders ==
    {p \in [1..Len(vertices) -> Range(vertices)] :
        p[1] = start /\ Range(p) = Range(vertices)}

\* the graph has a Hamiltonian cycle
HasHamiltonianCycle == \E p \in VisitOrders : HamiltonianCycle(p)

\* the run is over: the scene returned, or an edge lookup raised KeyError
HamEnded == scene = "hamilton" /\ pc \in {"done", "KeyError"}

IsPrefix(s, t) == Len(s) <= Len(t) /\ s = SubSeq(t, 1, Len(s))

ScriptedForSceneGraph ==
    /\ [](HamScene =>
            /\ pc # "KeyError"
            /\ pc # "done" => ENABLED NextHam
            /\ pc = "done" => (status = "Hamiltonian cycle found" /\ HamiltonianCycle(path)))
    /\ [](scene = "hamilton" =>
            /\ IsPrefix(path, <<1, 2, 3, 4, 5>>) \/ IsPrefix(path, <<1, 2, 3, 5, 4>>)
            /\ status \in {"", "Exploring...", "Dead end", "Backtracking...",
                           "Hamiltonian cycle found"}
            /\ (HamEnded /\ ~HasHamiltonianCycle) =>
                  (pc = "KeyError" \/ status = "Dead end"))

\* the scene's run is over with the closed cycle 1,2,3,5,4,1 recorded edge by edge
SceneRunClosesCycle ==
    /\ HamScene
    /\ pc = "done"
    /\ HamiltonianCycle(path)
    /\ current_path_edges = << <<1, 2>>, <<2, 3>>, <<3, 5>>, <<5, 4>>, <<4, 1>> >>

---------------------------------------------------------------------------
(* Claims on the displayed frontier structures *)

\* the vertices of a list of <<node, parent>> entries, in order
Nodes(q) == [i \in 1..Len(q) |-> q[i][1]]

\* C21: at every loop head of BFS the displayed queue lists the same vertices in the
\* same front-to-back order as the work queue.
C21_DisplayedQueueMatches ==
    scene \in {"bfs", "run_queue_bfs"} => queue_items = Nodes(queue)

\* a loop head after a dequeue and two enqueues
C21_Witness ==
    /\ scene = "bfs"
    /\ pc = "loop"
    /\ visited # {}
    /\ Len(queue) >= 2
    /\ queue_items = Nodes(queue)

\* C22: at every loop head of the iterative DFS the displayed stack lists the same
\* vertices in the same bottom-to-top order as the logical stack, the initial push of
\* the source vertex included.
C22_DisplayedStackMatches ==
    (scene = "dfs_iter" /\ pc = "loop") => stack_items = Nodes(stack)

\* what the code does keep: once the source vertex has been popped, the displayed
\* stack and the logical stack agree at every loop head
DisplayedStackMatchesAfterFirstPop ==
    (scene = "dfs_iter" /\ pc = "loop" /\ traversal_order # <<>>) =>
        stack_items = Nodes(stack)

---------------------------------------------------------------------------
(* The Hamiltonian script against a plain backtracking search *)

\* a set of vertices as a list in ascending order
Ascending(S) ==
    [k \in 1..Cardinality(S) |-> CHOOSE x \in S : Cardinality({y \in S : y < x}) = k - 1]

\* the neighbours of the last vertex of p that are not on p
OpenNeighbours(p) == {v \in Range(vertices) : v \notin Range(p) /\ HamLinked(p[Len(p)], v)}

\* plain backtracking from the partial path p: the events of the search and whether
\* it found a cycle.  A complete path is closed when an edge joins its last vertex
\* to the start and is a dead end otherwise; an incomplete one is extended by each
\* unvisited neighbour in ascending order, every failed extension being undone.
RECURSIVE Backtracking(_)
RECURSIVE TryEach(_, _)
Backtracking(p) ==
    IF Len(p) = Len(vertices)
    THEN IF HamLinked(p[Len(p)], p[1])
         THEN [events |-> << <<"close", p[1]>> >>, found |-> TRUE]
         ELSE [events |-> << <<"dead end", p[Len(p)]>> >>, found |-> FALSE]
    ELSE IF OpenNeighbours(p) = {}
         THEN [events |-> << <<"dead end", p[Len(p)]>> >>, found |-> FALSE]
         ELSE TryEach(p, Ascending(OpenNeighbours(p)))

TryEach(p, candidates) ==
    IF candidates = <<>> THEN [events |-> <<>>, found |-> FALSE]
    ELSE LET v == Head(candidates)
             below == Backtracking(Append(p, v))
         IN  IF below.found
             THEN [events |-> << <<"extend", v>> >> \o below.events, found |-> TRUE]
             ELSE LET others == TryEach(p, Tail(candidates))
                  IN  [events |-> << <<"extend", v>> >> \o below.events
                                     \o << <<"backtrack", v>> >> \o others.events,
                       found |-> others.found]

\* C23: on e_alg the steps of the script are those of a plain backtracking search from
\* vertex 1 that tries neighbours in ascending order (extend 2, 3, 4, 5; dead end at
\* 5; remove 5; remove 4; extend 5; extend 4; close to 1), and the script's error
\* branches ("Not all vertices visited", "no edge 4 -> 1") are not taken.
C23_ScriptIsBacktrackingTrace ==
    HamScene =>
        \A search \in {Backtracking(<<start>>)} :
            /\ search.found
            /\ IsPrefix(trace, search.events)
            /\ pc # "KeyError"
            /\ pc = "done" =>
                  /\ trace = search.events
                  /\ trace[Len(trace)] = <<"close", start>>
                  /\ \A i \in 1..Len(trace) : trace[i][1] # "error"
                  /\ \A i \in 1..Len(trace) : trace[i] # <<"dead end", 4>>

\* the script has run to its end, through the dead end at 5 and both backtracks
C23_Witness ==
    /\ HamScene
    /\ pc = "done"
    /\ trace = << <<"extend", 2>>, <<"extend", 3>>, <<"extend", 4>>, <<"extend", 5>>,
                  <<"dead end", 5>>, <<"backtrack", 5>>, <<"backtrack", 4>>,
                  <<"extend", 5>>, <<"extend", 4>>, <<"close", 1>> >>

---------------------------------------------------------------------------
(* Claims on the order of visits *)

\* the recursive DFS has finished on the scene's 7-vertex graph
SceneDfsRecDone ==
    /\ scene = "dfs_rec"
    /\ vertices = SceneVertices
    /\ edges = SceneEdges
    /\ pc = "done"

\* C24: on the 7-vertex graph from source 0 the recursive DFS visits 4 before 3, and
\* its tree contains the edge (1,4) and no edge between 4 and 6.
C24_SceneTreeAvoids46 ==
    SceneDfsRecDone =>
        /\ VisitIndex(4) < VisitIndex(3)
        /\ <<1, 4>> \in Range(tree_edges)
        /\ <<4, 6>> \notin Range(tree_edges)
        /\ <<6, 4>> \notin Range(tree_edges)

\* what the run does give: the order 0, 1, 4, 6, 3, 2, 5 and the tree edges
\* (0,1), (1,4), (4,6), (6,3), (0,2), (2,5)
SceneDfsRecResult ==
    SceneDfsRecDone =>
        /\ traversal_order = <<0, 1, 4, 6, 3, 2, 5>>
        /\ tree_edges = << <<0, 1>>, <<1, 4>>, <<4, 6>>, <<6, 3>>, <<0, 2>>, <<2, 5>> >>

\* C25: BFS visits level by level: along traversal_order the recorded distances never
\* decrease, and when a vertex at distance k+1 is visited every vertex at distance k
\* or less has been visited.
C25_BFSLevelByLevel ==
    InBFS =>
        /\ \A i, j \in 1..Len(traversal_order) :
              i < j => RecordedDistance(traversal_order[i])
                          <= RecordedDistance(traversal_order[j])
        /\ \A reached \in {Reachable(start)} :
           \A v \in visited : \A w \in reached :
              HopDistance(start, w) < RecordedDistance(v) => w \in visited

\* a loop head of the main scene with two levels visited and a third one waiting
C25_Witness ==
    /\ scene = "bfs"
    /\ pc = "loop"
    /\ Len(traversal_order) >= 3
    /\ RecordedDistance(traversal_order[Len(traversal_order)]) = 1
    /\ \E v \in Reachable(start) : HopDistance(start, v) = 2 /\ v \notin visited

---------------------------------------------------------------------------
(* Claims on the parity colouring of run_queue_bfs *)

\* the graph cannot be coloured with two colours so that every edge joins different
\* colours, that is, it contains a cycle of odd length
HasOddCycle ==
    ~ \E c \in [V -> {0, 1}] : \A i \in 1..Len(edges) : c[edges[i][1]] # c[edges[i][2]]

\* run_queue_bfs has finished on a connected graph
ConnectedRunDone == scene = "run_queue_bfs" /\ pc = "done" /\ Reachable(start) = V

\* C26: after run_queue_bfs on a connected graph, bad_edges is non-empty exactly when
\* the graph contains an odd cycle, and when it is empty the colouring by distance
\* parity (played by the colouring step or by the layer step) gives the two ends of
\* every edge different colours.
C26_BadEdgesIffOddCycle ==
    (ConnectedRunDone /\ options.explain_non_bipartite) =>
        /\ bad_edges # <<>> <=> HasOddCycle
        /\ ((options.show_bipartite_coloring \/ options.show_layers) /\ bad_edges = <<>>) =>
              \A i \in 1..Len(edges) :
                  parity_color[edges[i][1]] # parity_color[edges[i][2]]

\* a finished run on a connected graph with a triangle: some edge joins two vertices of
\* the same parity
C26_Witness ==
    /\ ConnectedRunDone
    /\ options.explain_non_bipartite
    /\ options.show_bipartite_coloring
    /\ HasOddCycle
    /\ bad_edges # <<>>

---------------------------------------------------------------------------
(* Claims on the order of Dijkstra's finalizations and on its displayed queue *)

\* <<distance, vertex>> of v, the key the heap orders by
Key(v) == <<distances[v], v>>

\* this step finalizes u
Finalizes(u) == u \notin visited /\ traversal_order' = Append(traversal_order, u)

\* along traversal_order the final distances never decrease
FinalizedInDistanceOrder ==
    \A i, j \in 1..Len(traversal_order) :
        i < j => distances[traversal_order[i]] <= distances[traversal_order[j]]

\* C27 as stated: vertices are finalized in non-decreasing order of final distance,
\* vertices of equal final distance in ascending order of vertex id.
C27_FinalizedByDistanceThenId ==
    scene = "dijkstra" =>
        \A i, j \in 1..Len(traversal_order) :
            i < j => PairLess(Key(traversal_order[i]), Key(traversal_order[j]))

\* C27, amended: vertices are finalized in non-decreasing order of final distance, and
\* each vertex finalized has the smallest pair (tentative distance, vertex id) among
\* the vertices not yet finalized at that moment; a vertex that gets its distance
\* later over a zero-weight edge can follow a vertex of the same distance and larger id.
C27_FinalizedSmallestTentative ==
    /\ [](scene = "dijkstra" => FinalizedInDistanceOrder)
    /\ [][\A u \in V : (scene = "dijkstra" /\ Finalizes(u)) =>
              \A v \in V \ visited : v # u => PairLess(Key(u), Key(v))]_vars

\* vertex 2 was finalized before vertex 1 at the same distance, which 1 got over a
\* zero-weight edge from 2
C27_Witness ==
    /\ scene = "dijkstra"
    /\ traversal_order = <<0, 2, 1>>
    /\ distances[1] = distances[2]
    /\ parent[1] = 2

\* the displayed queue at a loop head: one entry per vertex at most, none for a
\* finalized vertex, ascending by (distance, vertex), each with the vertex's current
\* tentative distance
DisplayedQueueInOrder ==
    /\ \A i, j \in 1..Len(pq_items) : pq_items[i][2] = pq_items[j][2] => i = j
    /\ \A i \in 1..Len(pq_items) : pq_items[i][2] \notin visited
    /\ \A i, j \in 1..Len(pq_items) : i < j => PairLess(pq_items[i], pq_items[j])
    /\ \A i \in 1..Len(pq_items) : pq_items[i][1] = distances[pq_items[i][2]]

\* a pop of an entry whose vertex is not finalized takes the first displayed entry,
\* and the iteration leaves no entry for that vertex
PopTakesDisplayedFront ==
    (scene = "dijkstra" /\ pc = "loop" /\ pq # <<>>) =>
        \A top \in {HeapPop(pq).item} :
            top[2] \notin visited =>
                /\ pq_items # <<>>
                /\ pq_items[1] = top
                /\ \A i \in 1..Len(pq_items') : pq_items'[i][2] # top[2]

\* C28: at every loop head of Dijkstra the displayed priority queue holds at most one
\* entry per vertex, only for vertices not yet finalized, sorted ascending by
\* (distance, vertex), each with the vertex's current tentative distance; and the
\* heap's pop of an entry for a vertex not yet finalized takes the first displayed
\* entry, which is removed.
C28_DisplayedPriorityQueue ==
    /\ []((scene = "dijkstra" /\ pc = "loop") => DisplayedQueueInOrder)
    /\ [][PopTakesDisplayedFront]_vars

\* a loop head where the heap still holds a stale entry for a vertex whose displayed
\* entry was replaced by a smaller distance
C28_Witness ==
    /\ scene = "dijkstra"
    /\ pc = "loop"
    /\ Len(pq_items) >= 1
    /\ Len(pq) > Len(pq_items)
    /\ \E i \in 1..Len(pq) : \E j \in 1..Len(pq_items) :
          pq[i][2] = pq_items[j][2] /\ pq[i][1] > pq_items[j][1]

---------------------------------------------------------------------------
(* Claim on the Hierholzer example *)

\* the walk over the scene's 11-edge example from vertex 5
HierholzerExample ==
    /\ scene = "hierholzer"
    /\ vertices = HierholzerVertices
    /\ edges = HierholzerEdges
    /\ start = 5

\* C29: in the Hierholzer example, whatever neighbour is chosen at each step, the
\* first vertex appended to circuit is 7 and the last is 5, so that the final trail
\* starts at 5 and ends at 7, the two odd-degree vertices.
C29_ExampleTrailFrom5To7 ==
    HierholzerExample =>
        /\ OddVertices = {5, 7}
        /\ circuit # <<>> => circuit[1] = 7
        /\ pc = "done" =>
              /\ circuit[Len(circuit)] = 5
              /\ final_circuit[1] = 5
              /\ final_circuit[Len(final_circuit)] = 7

\* the example's walk has finished with all 11 edges used
C29_Witness ==
    /\ HierholzerExample
    /\ pc = "done"
    /\ Len(final_circuit) = 12
    /\ final_circuit[1] = 5
    /\ final_circuit[12] = 7

---------------------------------------------------------------------------
(* Random graph to complete graph: GraphSequence.construct, part 1 (main.py) *)

\* n = 7
n == 7

\* cycle_edges = [(i, (i + 1) % n) for i in range(n)]
cycle_edges == [k \in 1..n |-> <<k - 1, k % n>>]

\* all_pairs = list(itertools.combinations(vertices, 2)), in lexicographic order
all_pairs == PairList({p \in (0..n-1) \X (0..n-1) : p[1] < p[2]})

\* `e not in cycle_edges and (e[1], e[0]) not in cycle_edges`
OffCycle(e) == e \notin Range(cycle_edges) /\ <<e[2], e[1]>> \notin Range(cycle_edges)

remaining_pairs == SelectSeq(all_pairs, OffCycle)

\* complete_edges = all_pairs
complete_edges == all_pairs

\* as NotListed, looking for the pair in either orientation
NotListedEitherWay(e, listed) == e \notin Range(listed) /\ <<e[2], e[1]>> \notin Range(listed)

\* `e not in random_edges`: membership of the tuple as written
NotListed(e, listed) == e \notin Range(listed)

\* new_edges = [e for e in complete_edges if e not in random_edges]
NewEdges(listed) ==
    LET Missing(e) == NotListed(e, listed) IN SelectSeq(complete_edges, Missing)

\* graph.add_edges(*new_edges): graph.edges is a dict keyed by the tuple as given, so a
\* key already present is kept once and a pair in the other orientation is a new key
RECURSIVE AddEdges(_, _)
AddEdges(keys, added) ==
    IF added = <<>> THEN keys
    ELSE AddEdges(IF Head(added) \in Range(keys) THEN keys ELSE Append(keys, Head(added)),
                  Tail(added))

\* the part of the model's state the scene does not use
SeqOthersIdle ==
    /\ edge_weights = <<>>
    /\ start = 0
    /\ visited = {}
    /\ traversal_order = <<>>
    /\ tree_edges = <<>>
    /\ distances = <<>>
    /\ trace = <<>>
    /\ BfsIdle
    /\ DfsIdle
    /\ DijIdle
    /\ EulerIdle
    /\ HamIdle

\* the random graph is on screen: each remaining pair was drawn into extra_edges or
\* not (random.random() < 0.2), and |E| = len(random_edges) is displayed
InitSeq ==
    \E drawn \in SUBSET Range(remaining_pairs) :
        /\ scene = "graph_sequence"
        /\ pc = "random"
        /\ vertices = [k \in 1..n |-> k - 1]
        /\ LET Drawn(e) == e \in drawn
           IN  random_edges = cycle_edges \o SelectSeq(remaining_pairs, Drawn)
        /\ edges = random_edges
        /\ graph_edges = AddEdges(<<>>, random_edges)
        /\ new_edges = <<>>
        /\ stats = Len(random_edges)
        /\ SeqOthersIdle

\* Transform to complete graph: smooth_add_edges(graph, new_edges, ...) and the new
\* |E| = len(complete_edges)
TransformToComplete ==
    /\ scene = "graph_sequence"
    /\ pc = "random"
    /\ pc' = "complete"
    /\ \E added \in {NewEdges(random_edges)} :
          /\ new_edges' = added
          /\ graph_edges' = IF added = <<>> THEN graph_edges
                            ELSE AddEdges(graph_edges, added)
    /\ stats' = Len(complete_edges)
    /\ UNCHANGED <<graphVars, random_edges, visited, traversal_order, tree_edges,
                   distances, trace, bfsVars, dfsVars, dijVars, eulerVars, hamVars>>

NextSeq == TransformToComplete

SpecSeq == InitSeq /\ [][NextSeq]_vars

\* the number of keys of graph.edges joining u and v, in either orientation
KeysJoining(u, v) ==
    Cardinality({i \in 1..Len(graph_edges) :
                    graph_edges[i] = <<u, v>> \/ graph_edges[i] = <<v, u>>})

\* C30: after smooth_add_edges the graph holds exactly n(n-1)/2 = 21 edges, one for
\* each unordered pair of the 7 vertices, none twice and none missing, as many as
\* the displayed |E| = 21.
C30_CompleteGraphEdges ==
    (scene = "graph_sequence" /\ pc = "complete") =>
        /\ stats = 21
        /\ Len(graph_edges) = (n * (n - 1)) \div 2
        /\ Len(graph_edges) = stats
        /\ \A u, v \in 0..(n - 1) : u < v => KeysJoining(u, v) = 1

\* what the code keeps: every pair is joined, and only the pair of 0 and 6 twice, by
\* the keys <<6, 0>> of the cycle and <<0, 6>> of new_edges
CompleteGraphEdgesButOne ==
    (scene = "graph_sequence" /\ pc = "complete") =>
        /\ stats = 21
        /\ Len(graph_edges) = 22
        /\ \A u, v \in 0..(n - 1) :
              u < v => KeysJoining(u, v) = IF <<u, v>> = <<0, 6>> THEN 2 ELSE 1

====
